---------------------------- MODULE Spec2Model ----------------------------
(***************************************************************************)
(* Model of plot_map.py: a top-to-bottom script that reads a municipal     *)
(* boundary, three year-stamped land-use layers and a parks layer, and     *)
(* composes them into one folium map written to index.html.                *)
(*                                                                         *)
(* Conventions of the model                                                *)
(*   - a coordinate is an integer number of tenths of a degree; the        *)
(*     extents the script reads are such that the halvings at lines 73 and *)
(*     240 are exact;                                                      *)
(*   - a geometry is its bounding box <<minx, miny, maxx, maxy>>, the      *)
(*     order of GeoDataFrame.total_bounds (x = longitude, y = latitude);   *)
(*   - a Python str that the script parses, converts or builds is a        *)
(*     sequence of one-character strings; one it only compares is a string;*)
(*   - a Python value that may be None or NaN is a tagged record (Int_,    *)
(*     NoneV, NaN below);                                                  *)
(*   - a call that may raise returns [ok |-> TRUE, val |-> v] or           *)
(*     [ok |-> FALSE, err |-> e];                                          *)
(*   - every source layer is either without CRS or already in EPSG:4326:   *)
(*     the reprojection of line 21 is outside the model.                   *)
(***************************************************************************)
EXTENDS Integers, Sequences, FiniteSets, TLC

VARIABLES
    fs,            \* the source files the run finds on disk (never written)
    pc,            \* position of the script
    err,           \* the uncaught exception that ended the run, or "none"
    poly,          \* the boundary layer as read (line 63)
    mun,           \* the dissolved municipality (line 71)
    center,        \* initial map centre handed to folium.Map (line 73)
    children,      \* m._children: what was added to the map, in order
    loaded,        \* list of (label, gdf) pairs (lines 141-145)
    urban_layers,  \* line 154
    k,             \* index of the loops at lines 141 and 155
    viewport,      \* argument of m.fit_bounds (line 200)
    parques,       \* the parks layer (line 206)
    written,       \* index.html was written (line 251)
    printed,       \* the success line was printed (line 252)
    call           \* a direct call of one helper: [fn, arg, ret]

vars == <<fs, pc, err, poly, mun, center, children, loaded, urban_layers, k,
          viewport, parques, written, printed, call>>

pipeVars == <<fs, pc, err, poly, mun, center, children, loaded, urban_layers, k,
              viewport, parques, written, printed>>

-----------------------------------------------------------------------------
(* Bounds of the model *)

\* rows of a layer given directly to load_urban_layer
MaxRows == 2
\* layers in a list given directly to bounds_of_layers
MaxLayers == 2
\* coordinates of the extents in such a list range over 0 .. MaxCoord
MaxCoord == 1

(* Program constants *)

\* len(files), lines 122-126
NFiles == 3

-----------------------------------------------------------------------------
(* Python values *)

Int_(n) == [t |-> "int", v |-> n]
NoneV == [t |-> "None", v |-> 0]
NaN == [t |-> "nan", v |-> 0]

Ok(v) == [ok |-> TRUE, val |-> v]
Raise(e) == [ok |-> FALSE, err |-> e]

\* pandas notna(): neither None nor NaN
notna(c) == c.t = "int"

Min(S) == CHOOSE x \in S : \A y \in S : x <= y
Max(S) == CHOOSE x \in S : \A y \in S : x >= y

-----------------------------------------------------------------------------
(* Python str <-> int *)

Digits == <<"0", "1", "2", "3", "4", "5", "6", "7", "8", "9">>

IsDigit(c) == \E d \in 1..10 : Digits[d] = c

DigitVal(c) == (CHOOSE d \in 1..10 : Digits[d] = c) - 1

RECURSIVE NatStr(_)
NatStr(n) == IF n < 10 THEN <<Digits[n + 1]>>
             ELSE Append(NatStr(n \div 10), Digits[(n % 10) + 1])

\* str(x) for the values a "year" cell holds after line 134
str(x) == CASE x.t = "int" -> IF x.v < 0 THEN <<"-">> \o NatStr(-x.v) ELSE NatStr(x.v)
            [] x.t = "None" -> <<"N", "o", "n", "e">>
            [] x.t = "nan" -> <<"n", "a", "n">>

RECURSIVE DigitsVal(_)
DigitsVal(s) == IF Len(s) = 0 THEN 0
                ELSE 10 * DigitsVal(SubSeq(s, 1, Len(s) - 1)) + DigitVal(s[Len(s)])

\* int(s) for a str s: ValueError unless s is an optionally signed digit string
int_str(s) ==
    LET neg == Len(s) > 0 /\ s[1] = "-"
        body == IF neg THEN Tail(s) ELSE s
    IN IF Len(body) > 0 /\ \A j \in 1..Len(body) : IsDigit(body[j])
       THEN Ok(IF neg THEN -DigitsVal(body) ELSE DigitsVal(body))
       ELSE Raise("ValueError")

\* int(x) for a cell value: int(nan) raises ValueError, int(None) TypeError
int_val(x) == CASE x.t = "int" -> Ok(x.v)
                [] x.t = "nan" -> Raise("ValueError")
                [] x.t = "None" -> Raise("TypeError")

-----------------------------------------------------------------------------
(* year_from_path, lines 41-43 *)

\* re.search(r"(19|20)\d{2}", path) matches at position p
YearMatchAt(path, p) ==
    /\ p + 3 <= Len(path)
    /\ \/ path[p] = "1" /\ path[p + 1] = "9"
       \/ path[p] = "2" /\ path[p + 1] = "0"
    /\ IsDigit(path[p + 2])
    /\ IsDigit(path[p + 3])

\* lines 41-43: the leftmost match, as an int
year_from_path(path) ==
    LET hits == {p \in 1..Len(path) : YearMatchAt(path, p)}
    IN IF hits = {} THEN NoneV
       ELSE Int_(DigitsVal(SubSeq(path, Min(hits), Min(hits) + 3)))

-----------------------------------------------------------------------------
(* GeoDataFrames *)

\* A GeoDataFrame: [crs, cols, rows]; crs is "none" or "4326", cols the set
\* of attribute columns, rows a sequence of records holding a geom (a
\* bounding box, or EmptyGeom) and one field per attribute the model reads.
\* A field whose column is not in cols is never read.
EmptyGeom == <<>>

is_empty(geom) == geom = EmptyGeom

\* GeoDataFrame.empty
empty(g) == Len(g.rows) = 0

\* GeoDataFrame.total_bounds of a frame with at least one non-empty geometry
total_bounds(g) ==
    LET bs == {g.rows[j].geom : j \in {i \in 1..Len(g.rows) : ~is_empty(g.rows[i].geom)}}
    IN <<Min({b[1] : b \in bs}), Min({b[2] : b \in bs}),
         Max({b[3] : b \in bs}), Max({b[4] : b \in bs})>>

\* a list element that is None rather than a GeoDataFrame (line 51)
NoneLayer == [none |-> TRUE]
Layer(g) == [none |-> FALSE, g |-> g]

\* lines 17-21
to_wgs84(gdf) ==
    IF gdf.crs = "none" THEN Raise("ValueError")
    ELSE Ok(gdf)

\* lines 23-30: the bounding box and the attributes of a frame are kept
fix_valid(gdf) == gdf

\* lines 32-39; a file is [readable, gdf], gpd.read_file raises on an
\* unreadable one
read_fix(file) ==
    IF ~file.readable THEN Raise("ReadFailure")
    ELSE to_wgs84(fix_valid(file.gdf))

-----------------------------------------------------------------------------
(* bounds_of_layers, lines 45-58 *)

\* line 57, in tenths of a degree
FallbackViewport == <<<<-233, -472>>, <<-230, -467>>>>

\* lines 50-54: the layers that contribute their extent
Contributing(layers) ==
    {j \in 1..Len(layers) : ~layers[j].none /\ ~empty(layers[j].g)}

\* bounds_of_layers returning (lon, lat) pairs
BoundsSwapped(layers) ==
    IF Len(layers) = 0 THEN Raise("ValueError")
    ELSE LET tbs == {total_bounds(layers[j].g) : j \in Contributing(layers)}
             xs == {b[1] : b \in tbs} \cup {b[3] : b \in tbs}
             ys == {b[2] : b \in tbs} \cup {b[4] : b \in tbs}
         IN IF xs = {} THEN Ok(FallbackViewport)
            ELSE Ok(<<<<Min(xs), Min(ys)>>, <<Max(xs), Max(ys)>>>>)

\* bounds_of_layers without the check of lines 47-48
BoundsNoRaise(layers) ==
    LET tbs == {total_bounds(layers[j].g) : j \in Contributing(layers)}
        xs == {b[1] : b \in tbs} \cup {b[3] : b \in tbs}
        ys == {b[2] : b \in tbs} \cup {b[4] : b \in tbs}
    IN IF xs = {} THEN Ok(FallbackViewport)
       ELSE Ok(<<<<Min(ys), Min(xs)>>, <<Max(ys), Max(xs)>>>>)

\* lines 45-58
bounds_of_layers(layers) ==
    IF Len(layers) = 0 THEN Raise("ValueError")
    ELSE LET tbs == {total_bounds(layers[j].g) : j \in Contributing(layers)}
             xs == {b[1] : b \in tbs} \cup {b[3] : b \in tbs}
             ys == {b[2] : b \in tbs} \cup {b[4] : b \in tbs}
         IN IF xs = {} THEN Ok(FallbackViewport)
            ELSE Ok(<<<<Min(ys), Min(xs)>>, <<Max(ys), Max(xs)>>>>)

-----------------------------------------------------------------------------
(* load_urban_layer, lines 128-139 *)

UpperCase == <<"U", "R", "B", "A", "N", "O", "L">>
LowerCase == <<"u", "r", "b", "a", "n", "o", "l">>

\* str.lower() of one character
LowerChar(c) ==
    IF \E j \in 1..Len(UpperCase) : UpperCase[j] = c
    THEN LowerCase[CHOOSE j \in 1..Len(UpperCase) : UpperCase[j] = c]
    ELSE c

lower(s) == [j \in 1..Len(s) |-> LowerChar(s[j])]

Urbano == <<"u", "r", "b", "a", "n", "o">>

\* lines 131-132
EnsureSoilUse(g) ==
    IF "soil_use" \in g.cols THEN g
    ELSE [g EXCEPT !.cols = @ \cup {"soil_use"},
                   !.rows = [j \in 1..Len(g.rows) |-> [g.rows[j] EXCEPT !.soil_use = Urbano]]]

\* line 133
ResolveYear(g, path) ==
    IF "year" \in g.cols /\ \E j \in 1..Len(g.rows) : notna(g.rows[j].year)
    THEN g.rows[1].year
    ELSE year_from_path(path)

\* line 134: int(yr) if yr is not None else None, written to every row
SetYear(g, yr) ==
    IF yr.t = "None"
    THEN Ok([g EXCEPT !.cols = @ \cup {"year"},
                      !.rows = [j \in 1..Len(g.rows) |-> [g.rows[j] EXCEPT !.year = NoneV]]])
    ELSE LET n == int_val(yr)
         IN IF ~n.ok THEN n
            ELSE Ok([g EXCEPT !.cols = @ \cup {"year"},
                              !.rows = [j \in 1..Len(g.rows) |->
                                           [g.rows[j] EXCEPT !.year = Int_(n.val)]]])

IsUrbanRow(r) == lower(r.soil_use) = Urbano

\* line 136
KeepUrban(g) == [g EXCEPT !.rows = SelectSeq(g.rows, IsUrbanRow)]

\* what load_urban_layer returns for a dropped layer (line 138)
NoneRet == [dropped |-> TRUE]

\* lines 128-139; file.path is the path argument
load_urban_layer(file) ==
    LET r == read_fix(file)
    IN IF ~r.ok THEN r
       ELSE LET g1 == EnsureSoilUse(r.val)
                y == SetYear(g1, ResolveYear(g1, file.path))
            IN IF ~y.ok THEN y
               ELSE LET g2 == KeepUrban(y.val)
                    IN IF empty(g2) THEN Ok(NoneRet)
                       ELSE Ok([dropped |-> FALSE,
                                label |-> str(g2.rows[1].year),
                                g |-> g2])

-----------------------------------------------------------------------------
(* The map and what is added to it *)

\* A child of the map m: what (the statement that made it), isLayer (a
\* folium Layer, the only children LayerControl looks at), layer_name,
\* overlay, control, show, and pane (the Leaflet pane it is drawn in).
Str_EsriWorldImagery == <<"E", "s", "r", "i", " ", "W", "o", "r", "l", "d", " ",
                          "I", "m", "a", "g", "e", "r", "y">>
Str_Parques == <<"P", "a", "r", "q", "u", "e", "s">>
Str_geo_json == <<"g", "e", "o", "_", "j", "s", "o", "n", "_">>

\* Layer.__init__ with name=None: layer_name = self.get_name(), an id that
\* no other element has; n is the position of the element in the map
AutoName(n) == Str_geo_json \o NatStr(n)

NotALayer(what) ==
    [what |-> what, isLayer |-> FALSE, layer_name |-> <<>>, overlay |-> FALSE,
     control |-> FALSE, show |-> FALSE, pane |-> "none"]

\* lines 77-83
TileLayer ==
    [what |-> "tiles", isLayer |-> TRUE, layer_name |-> Str_EsriWorldImagery,
     overlay |-> FALSE, control |-> FALSE, show |-> TRUE, pane |-> "tilePane"]

\* the halo without its pane argument
HaloInOverlayPane(n) ==
    [what |-> "halo", isLayer |-> TRUE, layer_name |-> AutoName(n),
     overlay |-> TRUE, control |-> TRUE, show |-> TRUE, pane |-> "overlayPane"]

\* lines 90-102: name=None, pane="mun_halo"; overlay, control and show are
\* GeoJson's defaults
HaloLayer(n) ==
    [what |-> "halo", isLayer |-> TRUE, layer_name |-> AutoName(n),
     overlay |-> TRUE, control |-> TRUE, show |-> TRUE, pane |-> "mun_halo"]

\* lines 105-118: name=None, pane="mun_line"
OutlineLayer(n) ==
    [what |-> "outline", isLayer |-> TRUE, layer_name |-> AutoName(n),
     overlay |-> TRUE, control |-> TRUE, show |-> TRUE, pane |-> "mun_line"]

\* lines 159-176: name=yr, overlay=True, show=show_flag, no pane given
UrbanLayer(yr, show_flag) ==
    [what |-> "urban", isLayer |-> TRUE, layer_name |-> yr,
     overlay |-> TRUE, control |-> TRUE, show |-> show_flag, pane |-> "overlayPane"]

\* line 196
LayerControl == NotALayer("LayerControl")

\* lines 229-230 and 241-246: FeatureGroup(name="Parques", show=True) holding
\* a MarkerCluster; markers are drawn in Leaflet's marker pane
ParksLayer(markers) ==
    [what |-> "parks", isLayer |-> TRUE, layer_name |-> Str_Parques,
     overlay |-> TRUE, control |-> TRUE, show |-> TRUE, pane |-> "markerPane",
     markers |-> markers]

\* z-index of a pane: the two custom panes of lines 86-87, and Leaflet's
\* own tile, overlay and marker panes
PaneZ(pane) ==
    CASE pane = "mun_halo" -> 650
      [] pane = "mun_line" -> 651
      [] pane = "tilePane" -> 200
      [] pane = "overlayPane" -> 400
      [] pane = "markerPane" -> 600

\* child a of ch is drawn above child b: the higher pane, or later in the
\* same pane
Above(ch, a, b) ==
    \/ PaneZ(ch[a].pane) > PaneZ(ch[b].pane)
    \/ PaneZ(ch[a].pane) = PaneZ(ch[b].pane) /\ a > b

\* LayerControl.render, run by m.save (line 251): one dictionary entry per
\* layer_name of the map's Layer children with control=True; a later child
\* with the same layer_name replaces the earlier one. An entry is
\* [key, target], target the child it toggles.
Listed(ch) == {j \in 1..Len(ch) : ch[j].isLayer /\ ch[j].control}

ControlEntries(ch) ==
    {[key |-> ch[j].layer_name, target |-> j] :
        j \in {i \in Listed(ch) :
                 \A h \in Listed(ch) :
                    (ch[h].layer_name = ch[i].layer_name /\ ch[h].overlay = ch[i].overlay)
                       => h <= i}}

-----------------------------------------------------------------------------
(* The files a run may find *)

File(path, gdf) == [readable |-> TRUE, path |-> path, gdf |-> gdf]
Unreadable(path) ==
    [readable |-> FALSE, path |-> path, gdf |-> [crs |-> "none", cols |-> {}, rows |-> <<>>]]

Path_poly == <<"S", "P", "_", "2", "0", "2", "4", ".", "s", "h", "p">>
Path_parks == <<"L", "_", "8", "6", "8", "3", "-", "2", "0", "1", "6", ".", "s", "h", "p">>
Path_2010 == <<"u", "_", "2", "0", "1", "0">>
Path_2023 == <<"u", "_", "2", "0", "2", "3">>
Path_noyear == <<"u", "_", "x">>
Path_two == <<"2", "1", "9", "9", "0", "_", "2", "0", "0", "0">>

\* boundary: one or two municipalities, row j lying in BoundaryBox[j]
BoundaryBox == <<<<-470, -234, -468, -230>>, <<-468, -232, -466, -228>>>>
MunNames == {"Jundiai", "Itu"}

BoundaryFiles ==
    {Unreadable(Path_poly)} \cup
    {File(Path_poly, [crs |-> c, cols |-> {"NM_MUN"},
                      rows |-> [j \in 1..n |-> [geom |-> BoundaryBox[j], NM_MUN |-> nm[j]]]]) :
        c \in {"4326"}, n \in 1..2, nm \in [1..2 -> MunNames]} \cup
    {File(Path_poly, [crs |-> "none", cols |-> {"NM_MUN"},
                      rows |-> <<[geom |-> BoundaryBox[1], NM_MUN |-> "Jundiai"]>>])}

\* land use: one feature per file
UrbanBox == <<-469, -233, -467, -231>>
SoilValues == {<<"U", "r", "b", "a", "n", "o">>, <<"r", "u", "r", "a", "l">>}

UrbanFiles ==
    {Unreadable(Path_2023)} \cup
    {File(path, [crs |-> "4326", cols |-> cols,
                 rows |-> <<[geom |-> UrbanBox,
                             year |-> IF "year" \in cols THEN Int_(2010) ELSE NoneV,
                             soil_use |-> soil]>>]) :
        path \in {Path_2023, Path_noyear},
        cols \in {{"soil_use"}, {"soil_use", "year"}},
        soil \in SoilValues}

\* parks: a point, an empty geometry, a polygon
ParkPoint == <<-468, -232, -468, -232>>
ParkPolygon == <<-470, -232, -466, -230>>

ParksFiles ==
    {Unreadable(Path_parks),
     File(Path_parks, [crs |-> "4326", cols |-> {"nome"}, rows |-> <<>>]),
     File(Path_parks, [crs |-> "4326", cols |-> {"NOME"},
                       rows |-> <<[geom |-> ParkPoint, nome |-> "", NOME |-> "Jardim"]>>]),
     File(Path_parks, [crs |-> "none", cols |-> {},
                       rows |-> <<[geom |-> EmptyGeom, nome |-> "", NOME |-> ""],
                                  [geom |-> ParkPolygon, nome |-> "", NOME |-> ""]>>]),
     File(Path_parks, [crs |-> "4326", cols |-> {},
                       rows |-> <<[geom |-> EmptyGeom, nome |-> "", NOME |-> ""],
                                  [geom |-> ParkPolygon, nome |-> "", NOME |-> ""]>>])}

-----------------------------------------------------------------------------
(* The script *)

NoError == [type |-> "none", at |-> "none"]
Unset == [set |-> FALSE]
NoCall == [fn |-> "none"]

\* an exception that is caught and followed by the save
AbortThenSave(type, at) ==
    /\ pc' = "save"
    /\ err' = [type |-> type, at |-> at]

\* an exception nobody catches ends the script
Abort(type, at) ==
    /\ pc' = "aborted"
    /\ err' = [type |-> type, at |-> at]

PipeInit ==
    /\ fs \in [boundary : BoundaryFiles, urban : [1..NFiles -> UrbanFiles],
               parks : ParksFiles]
    /\ pc = "read_boundary"
    /\ err = NoError
    /\ poly = Unset
    /\ mun = Unset
    /\ center = Unset
    /\ children = <<>>
    /\ loaded = <<>>
    /\ urban_layers = <<>>
    /\ k = 1
    /\ viewport = Unset
    /\ parques = Unset
    /\ written = FALSE
    /\ printed = FALSE

Init ==
    /\ PipeInit
    /\ call = NoCall

\* line 63
ReadBoundary ==
    /\ pc = "read_boundary"
    /\ LET r == read_fix(fs.boundary)
       IN IF r.ok
          THEN /\ poly' = r.val
               /\ pc' = "filter_mun"
               /\ err' = err
          ELSE /\ Abort(r.err, "boundary")
               /\ poly' = poly
    /\ UNCHANGED <<fs, mun, center, children, loaded, urban_layers, k, viewport,
                   parques, written, printed, call>>

IsJundiai(r) == r.NM_MUN = "Jundiai"

\* GeoDataFrame.dissolve() with no key: one row holding the union
dissolve(g) ==
    [g EXCEPT !.rows = <<[geom |-> total_bounds(g), NM_MUN |-> g.rows[1].NM_MUN]>>]

\* lines 66-71
FilterMun ==
    /\ pc = "filter_mun"
    /\ LET sel == [poly EXCEPT !.rows = SelectSeq(poly.rows, IsJundiai)]
       IN IF empty(sel)
          THEN /\ Abort("ValueError", "boundary")
               /\ mun' = mun
          ELSE /\ mun' = dissolve(sel)
               /\ pc' = "make_map"
               /\ err' = err
    /\ UNCHANGED <<fs, poly, center, children, loaded, urban_layers, k, viewport,
                   parques, written, printed, call>>

\* lines 72-73: the four names are bound to total_bounds in the order
\* miny, minx, maxy, maxx
Center(g) ==
    LET tb == total_bounds(g)
        miny == tb[1]
        minx == tb[2]
        maxy == tb[3]
        maxx == tb[4]
    IN <<(miny + maxy) \div 2, (minx + maxx) \div 2>>

\* lines 72-118
MakeMap ==
    /\ pc = "make_map"
    /\ center' = [set |-> TRUE, at |-> Center(mun)]
    /\ children' = <<TileLayer, NotALayer("CustomPane"), NotALayer("CustomPane"),
                     HaloLayer(4), OutlineLayer(5)>>
    /\ k' = 1
    /\ pc' = "load"
    /\ UNCHANGED <<fs, err, poly, mun, loaded, urban_layers, viewport, parques,
                   written, printed, call>>

\* line 141, one file per step
LoadUrban ==
    /\ pc = "load"
    /\ k <= NFiles
    /\ LET r == load_urban_layer(fs.urban[k])
       IN IF r.ok
          THEN /\ loaded' = Append(loaded, r.val)
               /\ k' = k + 1
               /\ pc' = IF k = NFiles THEN "sort" ELSE "load"
               /\ err' = err
          ELSE /\ Abort(r.err, "urban")
               /\ UNCHANGED <<loaded, k>>
    /\ UNCHANGED <<fs, poly, mun, center, children, urban_layers, viewport, parques,
                   written, printed, call>>

IsLoaded(x) == ~x.dropped

\* list.sort(key) is stable: x goes after every element whose key is not
\* greater than its own
RECURSIVE InsertByYear(_, _)
InsertByYear(x, s) ==
    IF Len(s) = 0 THEN <<x>>
    ELSE IF int_str(x.label).val < int_str(s[Len(s)].label).val
         THEN Append(InsertByYear(x, SubSeq(s, 1, Len(s) - 1)), s[Len(s)])
         ELSE Append(s, x)

RECURSIVE SortByYear(_)
SortByYear(s) ==
    IF Len(s) = 0 THEN <<>>
    ELSE InsertByYear(s[Len(s)], SortByYear(SubSeq(s, 1, Len(s) - 1)))

\* lines 142-145
FilterSort ==
    /\ pc = "sort"
    /\ LET kept == SelectSeq(loaded, IsLoaded)
       IN IF \E j \in 1..Len(kept) : ~int_str(kept[j].label).ok
          THEN /\ Abort("ValueError", "sort")
               /\ UNCHANGED <<loaded, k>>
          ELSE /\ loaded' = SortByYear(kept)
               /\ k' = 1
               /\ pc' = IF Len(kept) = 0 THEN "control" ELSE "render"
               /\ err' = err
    /\ UNCHANGED <<fs, poly, mun, center, children, urban_layers, viewport, parques,
                   written, printed, call>>

\* line 158
show_flag(yr, lst) == yr = lst[Len(lst)].label

\* lines 155-178, one iteration per step
RenderUrban ==
    /\ pc = "render"
    /\ k <= Len(loaded)
    /\ children' = Append(children,
                          UrbanLayer(loaded[k].label, show_flag(loaded[k].label, loaded)))
    /\ urban_layers' = Append(urban_layers, loaded[k].g)
    /\ k' = k + 1
    /\ pc' = IF k = Len(loaded) THEN "control" ELSE "render"
    /\ UNCHANGED <<fs, err, poly, mun, center, loaded, viewport, parques,
                   written, printed, call>>

\* lines 193-196 (the legend goes to the page, not to the map's children)
AddLayerControl ==
    /\ pc = "control"
    /\ children' = Append(children, LayerControl)
    /\ pc' = "fit"
    /\ UNCHANGED <<fs, err, poly, mun, center, loaded, urban_layers, k, viewport,
                   parques, written, printed, call>>

NotEmptyLayer(g) == ~empty(g)

AsLayers(gs) == [j \in 1..Len(gs) |-> Layer(gs[j])]

\* lines 199-200
FitBounds ==
    /\ pc = "fit"
    /\ LET some == SelectSeq(urban_layers, NotEmptyLayer)
           all_for_bounds == IF Len(some) > 0 THEN some ELSE <<mun>>
           r == bounds_of_layers(AsLayers(all_for_bounds))
       IN IF r.ok
          THEN /\ viewport' = [set |-> TRUE, box |-> r.val]
               /\ pc' = "read_parks"
               /\ err' = err
          ELSE /\ Abort(r.err, "fit")
               /\ viewport' = viewport
    /\ UNCHANGED <<fs, poly, mun, center, children, loaded, urban_layers, k,
                   parques, written, printed, call>>

\* lines 209-215: "nome" itself, else the first candidate column the layer
\* has, else the constant "Parque"
NameCandidates == <<"NOME", "Name", "name", "NM_PARQUE", "NM", "TITULO">>

NameOf(g, r) ==
    IF "nome" \in g.cols THEN r.nome
    ELSE LET hits == {j \in 1..Len(NameCandidates) : NameCandidates[j] \in g.cols}
         IN IF hits = {} THEN "Parque"
            ELSE r[NameCandidates[Min(hits)]]

\* line 206 with a read failure caught and replaced by an empty layer
ReadParksSwallows ==
    /\ pc = "read_parks"
    /\ LET r == read_fix(fs.parks)
       IN parques' = IF r.ok
                     THEN [r.val EXCEPT
                             !.cols = @ \cup {"nome"},
                             !.rows = [j \in 1..Len(r.val.rows) |->
                                         [r.val.rows[j] EXCEPT !.nome = NameOf(r.val, r.val.rows[j])]]]
                     ELSE [crs |-> "4326", cols |-> {"nome"}, rows |-> <<>>]
    /\ pc' = "markers"
    /\ UNCHANGED <<fs, err, poly, mun, center, children, loaded, urban_layers, k,
                   viewport, written, printed, call>>

\* lines 206-226; labels are ASCII, which lines 218-226 leave as they are
ReadParks ==
    /\ pc = "read_parks"
    /\ LET r == read_fix(fs.parks)
       IN IF r.ok
          THEN /\ parques' = [r.val EXCEPT
                                !.cols = @ \cup {"nome"},
                                !.rows = [j \in 1..Len(r.val.rows) |->
                                            [r.val.rows[j] EXCEPT !.nome = NameOf(r.val, r.val.rows[j])]]]
               /\ pc' = "markers"
               /\ err' = err
          ELSE /\ Abort(r.err, "parks")
               /\ parques' = parques
    /\ UNCHANGED <<fs, poly, mun, center, children, loaded, urban_layers, k,
                   viewport, written, printed, call>>

HasGeom(r) == ~is_empty(r.geom)

\* lines 238-242: the point itself, or the centroid of another geometry
\* (of a box, its middle), as [lat, lon]
MarkerOf(r) ==
    [location |-> <<(r.geom[2] + r.geom[4]) \div 2, (r.geom[1] + r.geom[3]) \div 2>>,
     tooltip |-> r.nome]

\* lines 229-248
AddParks ==
    /\ pc = "markers"
    /\ LET rows == SelectSeq(parques.rows, HasGeom)
       IN children' = Append(children, ParksLayer([j \in 1..Len(rows) |-> MarkerOf(rows[j])]))
    /\ pc' = "save"
    /\ UNCHANGED <<fs, err, poly, mun, center, loaded, urban_layers, k, viewport,
                   parques, written, printed, call>>

\* line 251
Save ==
    /\ pc = "save"
    /\ written' = TRUE
    /\ pc' = "print"
    /\ UNCHANGED <<fs, err, poly, mun, center, children, loaded, urban_layers, k,
                   viewport, parques, printed, call>>

\* line 252
PrintSaved ==
    /\ pc = "print"
    /\ printed' = TRUE
    /\ pc' = "done"
    /\ UNCHANGED <<fs, err, poly, mun, center, children, loaded, urban_layers, k,
                   viewport, parques, written, call>>

Next ==
    \/ ReadBoundary
    \/ FilterMun
    \/ MakeMap
    \/ LoadUrban
    \/ FilterSort
    \/ RenderUrban
    \/ AddLayerControl
    \/ FitBounds
    \/ ReadParks
    \/ AddParks
    \/ Save
    \/ PrintSaved

Spec == Init /\ [][Next]_vars

-----------------------------------------------------------------------------
(* Direct calls of bounds_of_layers *)

PipeIdle ==
    /\ fs = Unset
    /\ pc = "idle"
    /\ err = NoError
    /\ poly = Unset
    /\ mun = Unset
    /\ center = Unset
    /\ children = <<>>
    /\ loaded = <<>>
    /\ urban_layers = <<>>
    /\ k = 1
    /\ viewport = Unset
    /\ parques = Unset
    /\ written = FALSE
    /\ printed = FALSE

Coords == 0..MaxCoord

Boxes == {b \in Coords \X Coords \X Coords \X Coords : b[1] <= b[3] /\ b[2] <= b[4]}

Frame(rows) == [crs |-> "4326", cols |-> {}, rows |-> rows]

BoundsLayers ==
    {NoneLayer, Layer(Frame(<<>>))} \cup {Layer(Frame(<<[geom |-> b]>>)) : b \in Boxes}

SeqsUpTo(S, n) == UNION {[1..m -> S] : m \in 0..n}

InitBounds ==
    /\ PipeIdle
    /\ call \in {[fn |-> "bounds_of_layers", arg |-> a, done |-> FALSE, ret |-> Unset] :
                    a \in SeqsUpTo(BoundsLayers, MaxLayers)}

CallBounds ==
    /\ call.fn = "bounds_of_layers"
    /\ ~call.done
    /\ call' = [call EXCEPT !.done = TRUE, !.ret = bounds_of_layers(call.arg)]
    /\ UNCHANGED pipeVars

NextBounds == CallBounds

SpecBounds == InitBounds /\ [][NextBounds]_vars

-----------------------------------------------------------------------------
(* Direct calls of load_urban_layer *)

YearCells == {NoneV, NaN, Int_(1999), Int_(2010)}
SoilCells == SoilValues \cup {<<"u", "r", "b", "a", "n", "o">>}
LoadPaths == {Path_2010, Path_2023, Path_noyear, Path_two}

LoadRows(cols) ==
    SeqsUpTo([geom : {UrbanBox},
              year : IF "year" \in cols THEN YearCells ELSE {NoneV},
              soil_use : IF "soil_use" \in cols THEN SoilCells ELSE {<<>>}], MaxRows)

LoadFiles ==
    {Unreadable(Path_2023)} \cup
    UNION {{File(path, [crs |-> crs, cols |-> cols, rows |-> rows]) :
               path \in LoadPaths, crs \in {"none", "4326"}, rows \in LoadRows(cols)} :
           cols \in SUBSET {"year", "soil_use"}}

InitLoad ==
    /\ PipeIdle
    /\ call \in {[fn |-> "load_urban_layer", arg |-> f, done |-> FALSE, ret |-> Unset] :
                    f \in LoadFiles}

CallLoad ==
    /\ call.fn = "load_urban_layer"
    /\ ~call.done
    /\ call' = [call EXCEPT !.done = TRUE, !.ret = load_urban_layer(call.arg)]
    /\ UNCHANGED pipeVars

NextLoad == CallLoad

SpecLoad == InitLoad /\ [][NextLoad]_vars

-----------------------------------------------------------------------------
(* Properties *)

BoundsCalled == call.fn = "bounds_of_layers" /\ call.done
LoadCalled == call.fn = "load_urban_layer" /\ call.done

\* the layers of the argument that are neither None nor empty
NonEmptyLayers(a) == {j \in 1..Len(a) : ~a[j].none /\ Len(a[j].g.rows) > 0}

\* C2, as claimed: bounds_of_layers never fails; for an empty list, or a
\* list of None or empty layers only, it returns the fallback viewport.
C2_NeverFails ==
    (BoundsCalled /\ NonEmptyLayers(call.arg) = {})
        => call.ret = Ok(FallbackViewport)

\* C2, amended: for a non-empty list of None or empty layers only,
\* bounds_of_layers returns the fallback viewport; for the empty list it
\* raises ValueError.
C2_FallbackOrRaise ==
    (BoundsCalled /\ NonEmptyLayers(call.arg) = {})
        => IF Len(call.arg) = 0
           THEN call.ret = Raise("ValueError")
           ELSE call.ret = Ok(FallbackViewport)

C2_Witness ==
    /\ BoundsCalled
    /\ Len(call.arg) = 2
    /\ call.arg[1].none
    /\ ~call.arg[2].none
    /\ call.ret = Ok(FallbackViewport)

\* C3: with at least one non-empty layer the result is
\* [[minLat, minLon], [maxLat, maxLon]]: it encloses the extent of every
\* layer that is neither None nor empty, latitude (y) first, and each of its
\* four numbers is attained by one of those extents.
C3_BoundsEnclose ==
    (BoundsCalled /\ NonEmptyLayers(call.arg) # {})
        => /\ call.ret.ok
           /\ LET lo == call.ret.val[1]
                  hi == call.ret.val[2]
                  E == {total_bounds(call.arg[j].g) : j \in NonEmptyLayers(call.arg)}
              IN /\ \A e \in E : lo[1] <= e[2] /\ lo[2] <= e[1] /\ e[4] <= hi[1] /\ e[3] <= hi[2]
                 /\ \E e \in E : lo[1] = e[2]
                 /\ \E e \in E : lo[2] = e[1]
                 /\ \E e \in E : hi[1] = e[4]
                 /\ \E e \in E : hi[2] = e[3]

C3_Witness ==
    /\ BoundsCalled
    /\ call.arg = <<Layer(Frame(<<[geom |-> <<0, 0, 0, 1>>]>>)),
                    Layer(Frame(<<[geom |-> <<1, 1, 1, 1>>]>>))>>
    /\ call.ret = Ok(<<<<0, 0>>, <<1, 1>>>>)

\* the years of the "year" attribute that are not null, in feature order
NonNullYears(g) ==
    IF "year" \in g.cols
    THEN {j \in 1..Len(g.rows) : g.rows[j].year.t = "int"}
    ELSE {}

\* C4, as claimed: the resolved year is the first non-null value of the
\* "year" attribute when there is one, and otherwise the year in the path;
\* it is what a layer that keeps urban features is labelled with.
C4_FirstNonNullYear ==
    (LoadCalled /\ call.arg.readable /\ call.arg.gdf.crs # "none")
        => LET g == call.arg.gdf
               nn == NonNullYears(g)
               want == IF nn # {} THEN g.rows[Min(nn)].year
                       ELSE year_from_path(call.arg.path)
           IN want.t = "int"
                 => /\ call.ret.ok
                    /\ ~call.ret.val.dropped => call.ret.val.label = str(want)

\* the children of the map made by one statement of the script
Made(what) == {j \in 1..Len(children) : children[j].what = what}

\* the loop of lines 155-178 is over
Rendered == pc \in {"control", "fit", "read_parks", "markers", "save", "print", "done"}

Ended == pc \in {"done", "aborted"}

YearOf(j) == int_str(children[j].layer_name).val

\* C1, as claimed: of the temporal groups rendered, exactly one is visible
\* by default, it has the numerically greatest year, and every other
\* group is hidden.
C1_ExactlyOneVisible ==
    (Rendered /\ Made("urban") # {})
        => \E j \in Made("urban") :
              /\ children[j].show
              /\ \A h \in Made("urban") : YearOf(h) <= YearOf(j)
              /\ \A h \in Made("urban") \ {j} : ~children[h].show

\* a land-use file from which a year can be had: a non-null "year"
\* attribute, or a year in its path
HasYear(f) == NonNullYears(f.gdf) # {} \/ year_from_path(f.path).t = "int"

KeepsUrban(f) == ~empty(KeepUrban(EnsureSoilUse(f.gdf)))

SourcesReadable ==
    /\ read_fix(fs.boundary).ok
    /\ \E j \in 1..Len(fs.boundary.gdf.rows) : IsJundiai(fs.boundary.gdf.rows[j])
    /\ \A j \in 1..NFiles : read_fix(fs.urban[j]).ok
    /\ read_fix(fs.parks).ok

\* C5, as claimed: a land-use layer without a usable year is left out and
\* nothing else changes: the run ends with the output written and with one
\* temporal group for every other layer that keeps urban features.
C5_UnresolvedYearSkipped ==
    (Ended /\ SourcesReadable /\ \E j \in 1..NFiles : ~HasYear(fs.urban[j]))
        => /\ pc = "done"
           /\ written
           /\ Cardinality(Made("urban")) =
                 Cardinality({j \in 1..NFiles : HasYear(fs.urban[j]) /\ KeepsUrban(fs.urban[j])})

\* C6, as claimed: halo below every temporal overlay, outline above every
\* temporal overlay, markers above the overlays and above both boundary
\* renderings.
C6_HaloBelowMarkersOnTop ==
    written => \A h \in Made("halo"), o \in Made("outline"), p \in Made("parks") :
                  /\ Above(children, p, h)
                  /\ Above(children, p, o)
                  /\ \A t \in Made("urban") :
                        /\ Above(children, t, h)
                        /\ Above(children, o, t)
                        /\ Above(children, p, t)

\* C6, amended: the stacking order is fixed for every run: the temporal
\* overlays are lowest, the point markers are above them, the boundary halo
\* is above the markers and the boundary outline is above the halo.
C6_BoundaryOnTop ==
    written => \A h \in Made("halo"), o \in Made("outline"), p \in Made("parks") :
                  /\ Above(children, o, h)
                  /\ Above(children, h, p)
                  /\ \A t \in Made("urban") : Above(children, p, t)

C6_Witness ==
    /\ written
    /\ Cardinality(Made("urban")) >= 2
    /\ Made("halo") # {} /\ Made("outline") # {} /\ Made("parks") # {}
    /\ Len(children[Len(children)].markers) > 0

\* the entries of the toggle control that switch child j
EntriesOf(j) == {e \in ControlEntries(children) : e.target = j}

\* C7, as claimed: in the map that is written the toggle control has no
\* entry for the halo or the outline, exactly one entry for each temporal
\* group, under its year label, and exactly one for the markers, under
\* "Parques".
C7_ControlEntries ==
    written
        => /\ \A j \in Made("halo") \cup Made("outline") : EntriesOf(j) = {}
           /\ \A j \in Made("urban") :
                 EntriesOf(j) = {[key |-> children[j].layer_name, target |-> j]}
           /\ \A j \in Made("parks") : EntriesOf(j) = {[key |-> Str_Parques, target |-> j]}

\* C8, as claimed: an unreadable parks source does not abort the run, the
\* map is composed with no markers and written; an unreadable boundary
\* source aborts it.
C8_ParksOptional ==
    /\ (~fs.parks.readable /\ Ended /\ err.at \notin {"boundary", "urban", "sort", "fit"})
          => /\ written
             /\ \A p \in Made("parks") : Len(children[p].markers) = 0
    /\ (~fs.boundary.readable /\ Ended) => (pc = "aborted" /\ ~written)

\* C8, amended: an unreadable parks source aborts the run just as an
\* unreadable boundary source does: the run ends at the read, with no
\* marker set and nothing written.
C8_ReadFailureAborts ==
    /\ (~fs.parks.readable /\ pc \notin {"read_boundary", "filter_mun", "make_map", "load",
                                         "sort", "render", "control", "fit", "read_parks"})
          => /\ pc = "aborted"
             /\ ~written
             /\ Made("parks") = {}
    /\ (~fs.boundary.readable /\ pc # "read_boundary")
          => /\ pc = "aborted"
             /\ err = [type |-> "ReadFailure", at |-> "boundary"]
             /\ ~written

C8_Witness ==
    /\ ~fs.parks.readable
    /\ pc = "aborted"
    /\ err = [type |-> "ReadFailure", at |-> "parks"]
    /\ Made("urban") # {}
    /\ viewport.set

\* C9: the output is written only when every earlier stage has completed
\* without an error, the success line is printed only after the write, and
\* a run that an error ended has written and printed nothing.
C9_WriteLast ==
    /\ written => /\ err = NoError
                  /\ pc \in {"print", "done"}
                  /\ mun # Unset /\ center # Unset
                  /\ Made("halo") # {} /\ Made("outline") # {}
                  /\ k = Len(loaded) + 1
                  /\ Len(urban_layers) = Len(loaded)
                  /\ Made("LayerControl") # {}
                  /\ viewport # Unset
                  /\ parques # Unset
                  /\ Made("parks") # {}
    /\ printed => written
    /\ pc = "aborted" => (err # NoError /\ ~written /\ ~printed)
    /\ err # NoError => (pc = "aborted" /\ ~written /\ ~printed)

C9_Witness ==
    /\ pc = "done"
    /\ written /\ printed
    /\ Made("urban") # {}

\* C10, as claimed: the map centre is [mid-latitude, mid-longitude] of the
\* dissolved boundary's extent (minx, miny, maxx, maxy).
C10_CenterLatLon ==
    center # Unset
        => LET tb == total_bounds(mun)
           IN center.at = <<(tb[2] + tb[4]) \div 2, (tb[1] + tb[3]) \div 2>>

=============================================================================
